---- MODULE Spec2Model ----
(***************************************************************************)
(* A model of the governance bot's test double (bot/test): the mock entity *)
(* model, the generic and the JAM DAO test environment, the feedback       *)
(* command emulation, the bot runtime emulator and the scheduled task      *)
(* emulator.                                                               *)
(*                                                                         *)
(* Three specifications share the module:                                  *)
(*   Spec      the entity model driven by the test environment             *)
(*   SpecTask  one MockTaskLoop and the asyncio tasks its start() creates  *)
(*   SpecBot   one MockBot: registration and trigger_event dispatch        *)
(***************************************************************************)
EXTENDS Integers, Sequences, FiniteSets, TLC

\* ------------------------------------------------------------------------
\* Bounds of the model (not program constants)
\* ------------------------------------------------------------------------
MaxTasks == 2
MaxInvocations == 2
MaxTime == 1
MaxListeners == 2
MaxTriggers == 1
MaxChannels == 5
MaxThreads == 3
MaxMsgs == 2
MaxSends == 3
MaxPosts == 1
MaxVotes == 2
MaxRoles == 5
MaxMembers == 5
MaxVotesCount == 2
MaxAdds == 4
MaxHeld == 2

\* ------------------------------------------------------------------------
\* State
\* ------------------------------------------------------------------------
VARIABLES
    \* MockTaskLoop (mocks/task.py)
    running,          \* self._running
    curTask,          \* self._task: 0 is None, else an index into tasks
    tasks,            \* the asyncio tasks created by start(), in creation order
    next_iteration,   \* self.next_iteration, on the model's clock
    now,              \* the clock datetime.now() reads
    started,          \* history: number of callback invocations begun
    active,           \* history: callback invocations begun and not finished
    calls,            \* history: the last two API calls made on the task loop
    \* MockBot (mocks/bot.py)
    event_handlers,   \* self.event_handlers: event name -> function, 0 if absent
    listeners,        \* self.listeners: event name -> list of functions
    dispatches,       \* the trigger_event coroutines, in creation order
    registered,       \* history: per event name, the functions in listen() order
    commands,         \* self.commands: command name -> function
    processed,        \* what the last process_command call did
    \* the test environment and its guild (core/test_env_generic.py, mocks/)
    guild_roles,         \* guild.roles: the MockRole objects
    guild_members,       \* guild.members: the MockMember objects
    guild_channels,      \* guild.channels: text and forum channel objects
    env_roles,           \* self.roles: name -> role
    env_users,           \* self.users: name -> member
    env_channels,        \* self.channels: name -> text channel
    env_forum_channels,  \* self.forum_channels: name -> forum channel
    threads,             \* every thread object made, MockThread or MagicMock
    bot_user,            \* self.bot.user: a member, 0 while self.bot is None
    result               \* what the last call returned or raised

taskVars == <<running, curTask, tasks, next_iteration, now, started, active, calls>>

botVars == <<event_handlers, listeners, dispatches, registered, commands, processed>>

envVars ==
    <<guild_roles, guild_members, guild_channels, env_roles, env_users,
      env_channels, env_forum_channels, threads, bot_user, result>>

vars == <<taskVars, botVars, envVars>>

\* ========================================================================
\* Scheduled Task Emulator: mocks/task.py
\* ========================================================================

\* timedelta(minutes, seconds, hours) of the loop, in clock units
Interval == 1

\* A task created by asyncio.create_task(self._run()).
\*   pc:  "created"   not yet scheduled for the first time
\*        "callback"  suspended inside `await self.callback()`
\*        "sleep"     suspended inside `await asyncio.sleep(0.1)`
\*        "done"      _run returned (the while condition was false)
\*        "failed"    _run ended with the exception the callback raised
\*        "cancelled" _run ended with CancelledError
\*   must_cancel: Task.cancel() was called and not yet delivered
NewTask == [pc |-> "created", must_cancel |-> FALSE]

Finished(t) == t.pc \in {"done", "failed", "cancelled"}

\* MockTaskLoop.__init__
TaskInit ==
    /\ running = FALSE
    /\ curTask = 0
    /\ tasks = <<>>
    /\ now = 0
    /\ next_iteration = 0 + Interval
    /\ started = 0
    /\ active = 0
    /\ calls = <<>>

\* the last two API calls, oldest first
Logged(call) == IF Len(calls) < 2 THEN Append(calls, call) ELSE <<calls[2], call>>

\* the value start() stores in self._running (task.py:41)
start_NoFlag == running
StartFlag == TRUE

\* MockTaskLoop.start: sets the flag, creates a new task, overwrites self._task
start ==
    /\ Len(tasks) < MaxTasks
    /\ running' = StartFlag
    /\ tasks' = Append(tasks, NewTask)
    /\ curTask' = Len(tasks) + 1
    /\ calls' = Logged("start")
    /\ UNCHANGED <<next_iteration, now, started, active>>
    /\ UNCHANGED <<botVars, envVars>>

\* Task.cancel(): no effect on a finished task, else a pending request
Cancel(t) == IF Finished(t) THEN t ELSE [t EXCEPT !.must_cancel = TRUE]

\* MockTaskLoop.stop: clears the flag and cancels the task self._task names
stop ==
    /\ running' = FALSE
    /\ tasks' = IF curTask = 0 THEN tasks
                ELSE [tasks EXCEPT ![curTask] = Cancel(tasks[curTask])]
    /\ calls' = Logged("stop")
    /\ UNCHANGED <<curTask, next_iteration, now, started, active>>
    /\ UNCHANGED <<botVars, envVars>>

\* the loop condition of _run, `while self._running` (task.py:47)
WhileCond_CheckAfter == TRUE
WhileCond_Never == FALSE
WhileCond == running

\* One pass of _run from the loop condition up to its next suspension point,
\* for a task that is scheduled and has no cancellation pending.  The
\* callback, once invoked, returns without suspending ("returns"), raises
\* without suspending ("raises"), or suspends at an await of its own
\* ("suspends").
LoopPass(i, outcome) ==
    IF ~WhileCond
    THEN /\ tasks' = [tasks EXCEPT ![i].pc = "done"]
         /\ UNCHANGED <<next_iteration, started, active>>
    ELSE /\ started < MaxInvocations
         /\ started' = started + 1
         /\ CASE outcome = "returns" ->
                    /\ next_iteration' = now + Interval
                    /\ tasks' = [tasks EXCEPT ![i].pc = "sleep"]
                    /\ UNCHANGED active
              [] outcome = "raises" ->
                    /\ tasks' = [tasks EXCEPT ![i].pc = "failed"]
                    /\ UNCHANGED <<next_iteration, active>>
              [] outcome = "suspends" ->
                    /\ tasks' = [tasks EXCEPT ![i].pc = "callback"]
                    /\ active' = active + 1
                    /\ UNCHANGED next_iteration

Outcomes == {"returns", "raises", "suspends"}

\* the event loop runs a newly created task for the first time
RunFirst(i) ==
    /\ tasks[i].pc = "created"
    /\ IF tasks[i].must_cancel
       THEN /\ tasks' = [tasks EXCEPT ![i] = [pc |-> "cancelled", must_cancel |-> FALSE]]
            /\ UNCHANGED <<next_iteration, started, active>>
       ELSE \E outcome \in Outcomes : LoopPass(i, outcome)
    /\ UNCHANGED <<running, curTask, now, calls>>
    /\ UNCHANGED <<botVars, envVars>>

\* the event loop resumes a task suspended inside its callback: the callback
\* returns (then _run stores next_iteration and sleeps) or raises; a pending
\* cancellation is thrown into the callback's await instead, or, if the
\* callback had no await left, into the sleep of _run after next_iteration
\* was stored
ResumeCallback(i) ==
    /\ tasks[i].pc = "callback"
    /\ active' = active - 1
    /\ IF tasks[i].must_cancel
       THEN /\ tasks' = [tasks EXCEPT ![i] = [pc |-> "cancelled", must_cancel |-> FALSE]]
            /\ \/ UNCHANGED next_iteration
               \/ next_iteration' = now + Interval
       ELSE \/ /\ next_iteration' = now + Interval
               /\ tasks' = [tasks EXCEPT ![i].pc = "sleep"]
            \/ /\ tasks' = [tasks EXCEPT ![i].pc = "failed"]
               /\ UNCHANGED next_iteration
    /\ UNCHANGED <<running, curTask, now, started, calls>>
    /\ UNCHANGED <<botVars, envVars>>

\* the event loop resumes a task suspended in asyncio.sleep(0.1)
Wake(i) ==
    /\ tasks[i].pc = "sleep"
    /\ IF tasks[i].must_cancel
       THEN /\ tasks' = [tasks EXCEPT ![i] = [pc |-> "cancelled", must_cancel |-> FALSE]]
            /\ UNCHANGED <<next_iteration, started, active>>
       ELSE \E outcome \in Outcomes : LoopPass(i, outcome)
    /\ UNCHANGED <<running, curTask, now, calls>>
    /\ UNCHANGED <<botVars, envVars>>

\* time passes
Tick ==
    /\ now < MaxTime
    /\ now' = now + 1
    /\ UNCHANGED <<running, curTask, tasks, next_iteration, started, active, calls>>
    /\ UNCHANGED <<botVars, envVars>>

RunFirstStep == \E i \in 1..Len(tasks) : RunFirst(i)

ResumeCallbackStep == \E i \in 1..Len(tasks) : ResumeCallback(i)

WakeStep == \E i \in 1..Len(tasks) : Wake(i)

NextTask ==
    \/ start
    \/ stop
    \/ RunFirstStep
    \/ ResumeCallbackStep
    \/ WakeStep
    \/ Tick

\* ---- a loop that is started and never stopped, on a callback that always
\* ---- returns -------------------------------------------------------------

\* the first run of task i, its callback not raising
RunFirstReturning(i) == RunFirst(i) /\ tasks'[i].pc # "failed"

\* task i resumed inside its callback, which returns
ResumeCallbackReturning(i) == ResumeCallback(i) /\ tasks'[i].pc # "failed"

\* task i woken from its sleep, its callback not raising
WakeReturning(i) == Wake(i) /\ tasks'[i].pc # "failed"

\* the count of invocations starts over: the history is bounded, the run is not
ForgetInvocations ==
    /\ started = MaxInvocations
    /\ started' = 0
    /\ UNCHANGED <<running, curTask, tasks, next_iteration, now, active, calls>>
    /\ UNCHANGED <<botVars, envVars>>

RunFirstReturningStep == \E i \in 1..Len(tasks) : RunFirstReturning(i)

ResumeCallbackReturningStep == \E i \in 1..Len(tasks) : ResumeCallbackReturning(i)

WakeReturningStep == \E i \in 1..Len(tasks) : WakeReturning(i)

\* stop() on a loop that was not started yet
stopBeforeStart == tasks = <<>> /\ stop

NextTaskLive ==
    \/ stopBeforeStart
    \/ start
    \/ RunFirstReturningStep
    \/ ResumeCallbackReturningStep
    \/ WakeReturningStep
    \/ ForgetInvocations
    \/ Tick

\* the event loop runs every task that is ready to run
TaskFairness ==
    /\ \A i \in 1..MaxTasks :
           /\ WF_vars(i <= Len(tasks) /\ RunFirstReturning(i))
           /\ WF_vars(i <= Len(tasks) /\ ResumeCallbackReturning(i))
           /\ WF_vars(i <= Len(tasks) /\ WakeReturning(i))
    /\ WF_vars(ForgetInvocations)

\* ========================================================================
\* Bot Runtime Emulator: mocks/bot.py
\* ========================================================================

EventNames == {"on_ready", "on_message"}

\* the coroutine functions a test registers
Funcs == {1, 2}

\* MockBot.__init__
BotInit ==
    /\ event_handlers = [n \in EventNames |-> 0]
    /\ listeners = [n \in EventNames |-> <<>>]
    /\ dispatches = <<>>
    /\ registered = [n \in EventNames |-> <<>>]
    /\ commands = <<>>
    /\ processed = [op |-> "none"]

\* MockBot.event(func), func.__name__ being n: the one handler of n, replaced
\* by a later registration
event(n, f) ==
    /\ event_handlers' = [event_handlers EXCEPT ![n] = f]
    /\ UNCHANGED <<listeners, dispatches, registered, commands, processed>>
    /\ UNCHANGED <<taskVars, envVars>>

\* where listen() puts the new listener in the list of its event (bot.py:56)
Registered(list, f) == Append(list, f)

\* the number of listen() registrations made so far
NumRegistered == Len(registered["on_ready"]) + Len(registered["on_message"])

\* MockBot.listen(name)(func)
listen(n, f) ==
    /\ NumRegistered < MaxListeners
    /\ listeners' = [listeners EXCEPT ![n] = Registered(listeners[n], f)]
    /\ registered' = [registered EXCEPT ![n] = Append(registered[n], f)]
    /\ UNCHANGED <<event_handlers, dispatches, commands, processed>>
    /\ UNCHANGED <<taskVars, envVars>>

\* A trigger_event coroutine.
\*   stage: "new"       created, not yet run
\*          "handler"   suspended inside the single handler
\*          "listener"  suspended inside listener number idx of the list
\*          "returned"  trigger_event returned
\*          "raised"    trigger_event ended with what a handler raised
\*   log: history of this call: <<"begin" | "end" | "raise", kind, function>>
NewDispatch(n) == [name |-> n, stage |-> "new", idx |-> 0, fn |-> 0, log |-> <<>>]

\* MockBot.trigger_event(event_name) is called: the coroutine is created
trigger_event(n) ==
    /\ Len(dispatches) < MaxTriggers
    /\ dispatches' = Append(dispatches, NewDispatch(n))
    /\ UNCHANGED <<event_handlers, listeners, registered, commands, processed>>
    /\ UNCHANGED <<taskVars, envVars>>

\* the order in which the for loop of trigger_event visits the list (bot.py:74)
ListenerAt_Reversed(list, k) == list[Len(list) + 1 - k]
ListenerAt(list, k) == list[k]

\* the for loop over self.listeners[event_name], from position k on: the
\* listener at k is invoked and runs to its first suspension point, or the
\* loop is over and trigger_event returns
EnterListeners(d, k) ==
    IF k <= Len(listeners[d.name])
    THEN LET f == ListenerAt(listeners[d.name], k)
         IN [d EXCEPT !.stage = "listener", !.idx = k, !.fn = f,
                      !.log = Append(d.log, <<"begin", "listener", f>>)]
    ELSE [d EXCEPT !.stage = "returned", !.idx = k, !.fn = 0]

\* what trigger_event runs first (bot.py:70-75): the single handler of the
\* event if one is registered, else the listeners
Enter(d) ==
    IF event_handlers[d.name] # 0
    THEN LET f == event_handlers[d.name]
         IN [d EXCEPT !.stage = "handler", !.fn = f,
                      !.log = Append(d.log, <<"begin", "handler", f>>)]
    ELSE EnterListeners(d, 1)

\* the event loop runs a trigger_event coroutine for the first time
DispatchBegin(c) ==
    /\ dispatches[c].stage = "new"
    /\ dispatches' = [dispatches EXCEPT ![c] = Enter(dispatches[c])]
    /\ UNCHANGED <<event_handlers, listeners, registered, commands, processed>>
    /\ UNCHANGED <<taskVars, envVars>>

\* the function a coroutine is suspended in returns: trigger_event goes on,
\* without suspending, to the next listener or to its end
DispatchReturn(c) ==
    LET d == dispatches[c]
        e == [d EXCEPT !.log = Append(d.log, <<"end", d.stage, d.fn>>)]
    IN /\ d.stage \in {"handler", "listener"}
       /\ dispatches' = [dispatches EXCEPT ![c] =
              IF d.stage = "handler" THEN EnterListeners(e, 1)
              ELSE EnterListeners(e, d.idx + 1)]
       /\ UNCHANGED <<event_handlers, listeners, registered, commands, processed>>
       /\ UNCHANGED <<taskVars, envVars>>

\* the function a coroutine is suspended in raises: the exception leaves
\* trigger_event, which runs nothing more
DispatchRaise(c) ==
    LET d == dispatches[c]
    IN /\ d.stage \in {"handler", "listener"}
       /\ dispatches' = [dispatches EXCEPT ![c] =
              [d EXCEPT !.stage = "raised",
                        !.log = Append(d.log, <<"raise", d.stage, d.fn>>)]]
       /\ UNCHANGED <<event_handlers, listeners, registered, commands, processed>>
       /\ UNCHANGED <<taskVars, envVars>>

eventStep == \E n \in EventNames, f \in Funcs : event(n, f)

listenStep == \E n \in EventNames, f \in Funcs : listen(n, f)

triggerStep == \E n \in EventNames : trigger_event(n)

DispatchBeginStep == \E c \in 1..Len(dispatches) : DispatchBegin(c)

DispatchReturnStep == \E c \in 1..Len(dispatches) : DispatchReturn(c)

DispatchRaiseStep == \E c \in 1..Len(dispatches) : DispatchRaise(c)

NextBot ==
    \/ eventStep
    \/ listenStep
    \/ triggerStep
    \/ DispatchBeginStep
    \/ DispatchReturnStep
    \/ DispatchRaiseStep

\* ========================================================================
\* Entity Model and Test Environment: mocks/*.py, core/test_env_generic.py,
\* core/test_env_jam_dao.py
\*
\* Objects are named by their position in the list that holds every object
\* of their class: a role by its index in guild_roles, a member by its index
\* in guild_members, a channel (text or forum) by its index in
\* guild_channels, a thread by its index in threads.  A dict is the sequence
\* of its [key, value] entries in insertion order.
\* ========================================================================

\* ---- sequences --------------------------------------------------------
Contains(s, x) == \E i \in 1..Len(s) : s[i] = x

RemoveAt(s, p) == [i \in 1..(Len(s) - 1) |-> IF i < p THEN s[i] ELSE s[i + 1]]

\* d.get(key), 0 standing for None
DictGet(d, key) ==
    IF \E i \in 1..Len(d) : d[i].key = key
    THEN d[CHOOSE i \in 1..Len(d) : d[i].key = key].value
    ELSE 0

\* d[key] = value: a new key goes last, a known key keeps its place
DictPut(d, key, value) ==
    IF \E i \in 1..Len(d) : d[i].key = key
    THEN [i \in 1..Len(d) |-> IF d[i].key = key THEN [key |-> key, value |-> value] ELSE d[i]]
    ELSE Append(d, [key |-> key, value |-> value])

\* len() of a dict
DictLen(d) == Len(d)

\* ---- names the model uses ---------------------------------------------
RoleNames == {"Admin", "dao-team-representative", "dao-participant", "JAM-DAO-Bot"}

UserNames == {"admin_user", "dao_rep1", "participant1", "bot_user"}

ChannelNames == {"coordination-representatives"}

ForumNames ==
    {"referendas", "administrative-forum", "public-discussions", "representatives-forum"}

\* a name no fixture and no call declares
Undeclared == "undeclared"

\* ---- the environment as one value, for the operations' definitions -----
EnvRec ==
    [guild_roles |-> guild_roles, guild_members |-> guild_members,
     guild_channels |-> guild_channels, env_roles |-> env_roles,
     env_users |-> env_users, env_channels |-> env_channels,
     env_forum_channels |-> env_forum_channels, threads |-> threads,
     bot_user |-> bot_user]

SetEnv(E) ==
    /\ guild_roles' = E.guild_roles
    /\ guild_members' = E.guild_members
    /\ guild_channels' = E.guild_channels
    /\ env_roles' = E.env_roles
    /\ env_users' = E.env_users
    /\ env_channels' = E.env_channels
    /\ env_forum_channels' = E.env_forum_channels
    /\ threads' = E.threads
    /\ bot_user' = E.bot_user

\* DiscordTestEnvironment.__init__: a guild with nothing in it, empty dicts
EmptyEnv ==
    [guild_roles |-> <<>>, guild_members |-> <<>>, guild_channels |-> <<>>,
     env_roles |-> <<>>, env_users |-> <<>>, env_channels |-> <<>>,
     env_forum_channels |-> <<>>,
     threads |-> <<>>,
     bot_user |-> 0]

EnvInit ==
    /\ guild_roles = EmptyEnv.guild_roles
    /\ guild_members = EmptyEnv.guild_members
    /\ guild_channels = EmptyEnv.guild_channels
    /\ env_roles = EmptyEnv.env_roles
    /\ env_users = EmptyEnv.env_users
    /\ env_channels = EmptyEnv.env_channels
    /\ env_forum_channels = EmptyEnv.env_forum_channels
    /\ threads = EmptyEnv.threads
    /\ bot_user = EmptyEnv.bot_user
    /\ result = [op |-> "none"]

\* ---- structural setup: core/test_env_generic.py -------------------------

\* [self.roles.get(r) for r in names]: nothing filtered
ResolveRoles_Unfiltered(E, names) ==
    [i \in 1..Len(names) |-> DictGet(E.env_roles, names[i])]

\* [self.roles[r] for r in names if r in self.roles]
ResolveRoles(E, names) ==
    LET known == SelectSeq(names, LAMBDA r : DictGet(E.env_roles, r) # 0)
    IN [i \in 1..Len(known) |-> DictGet(E.env_roles, known[i])]

\* DiscordTestEnvironment.add_role(name): MockRole, guild.add_role, dict
AddRole(E, name) ==
    LET role == [id |-> 10 + DictLen(E.env_roles) + 1, name |-> name]
    IN [E EXCEPT !.guild_roles = Append(@, role),
                 !.env_roles = DictPut(@, name, Len(E.guild_roles) + 1)]

\* MockTextChannel.__init__ / MockForumChannel.__init__; restricted_to is the
\* attribute the add_ methods set, <<>> where they leave it unset
NewChannel(kind, id, name, tags, restricted) ==
    [kind |-> kind, id |-> id, name |-> name, messages |-> <<>>,
     threads |-> <<>>, posts |-> <<>>, available_tags |-> tags,
     restricted_to |-> restricted]

\* DiscordTestEnvironment.add_channel(name, restricted_to=...)
AddChannel(E, name, restricted_to) ==
    LET id == 100 + DictLen(E.env_channels) + 1
        ch == NewChannel("text", id, name, <<>>, ResolveRoles(E, restricted_to))
    IN [E EXCEPT !.guild_channels = Append(@, ch),
                 !.env_channels = DictPut(@, name, Len(E.guild_channels) + 1)]

\* DiscordTestEnvironment.add_forum_channel(name, tags=..., restricted_to=...)
AddForumChannel(E, name, tags, restricted_to) ==
    LET id == 200 + DictLen(E.env_forum_channels) + 1
        ch == NewChannel("forum", id, name, tags, ResolveRoles(E, restricted_to))
    IN [E EXCEPT !.guild_channels = Append(@, ch),
                 !.env_forum_channels = DictPut(@, name, Len(E.guild_channels) + 1)]

\* DiscordTestEnvironment.add_user(name, roles=...)
AddUser(E, name, roles) ==
    LET member == [id |-> 300 + DictLen(E.env_users) + 1, name |-> name,
                   roles |-> ResolveRoles(E, roles)]
    IN [E EXCEPT !.guild_members = Append(@, member),
                 !.env_users = DictPut(@, name, Len(E.guild_members) + 1)]

\* ---- the fixture: fixtures/config_jam_dao.py, cut down -------------------
\* one role, channel, forum and user of each kind the tables hold
ROLES == <<"Admin", "dao-team-representative", "dao-participant", "JAM-DAO-Bot">>

ALL_CHANNELS ==
    << [name |-> "coordination-representatives",
        restricted_to |-> <<"dao-team-representative">>] >>

REFERENDUM_TAGS ==
    << [id |-> 101, name |-> "MediumSpender"], [id |-> 104, name |-> "SmallSpender"] >>

FORUM_CHANNELS ==
    << [name |-> "referendas", tags |-> REFERENDUM_TAGS],
       [name |-> "administrative-forum", tags |-> <<>>],
       [name |-> "public-discussions", tags |-> <<>>] >>

USERS ==
    << [name |-> "admin_user", roles |-> <<"Admin">>],
       [name |-> "dao_rep1", roles |-> <<"dao-team-representative">>],
       [name |-> "participant1", roles |-> <<"dao-participant">>],
       [name |-> "bot_user", roles |-> <<"JAM-DAO-Bot">>] >>

RECURSIVE AddRoles(_, _)
AddRoles(E, list) ==
    IF list = <<>> THEN E ELSE AddRoles(AddRole(E, Head(list)), Tail(list))

RECURSIVE AddChannels(_, _)
AddChannels(E, list) ==
    IF list = <<>> THEN E
    ELSE AddChannels(AddChannel(E, Head(list).name, Head(list).restricted_to), Tail(list))

\* setup_jam_dao_structure passes tags and no restricted_to to add_forum_channel
RECURSIVE AddForumChannels(_, _)
AddForumChannels(E, list) ==
    IF list = <<>> THEN E
    ELSE AddForumChannels(AddForumChannel(E, Head(list).name, Head(list).tags, <<>>),
                          Tail(list))

RECURSIVE AddUsers(_, _)
AddUsers(E, list) ==
    IF list = <<>> THEN E
    ELSE AddUsers(AddUser(E, Head(list).name, Head(list).roles), Tail(list))

\* JamDaoDiscordTestEnvironment.setup_jam_dao_structure
SetupJamDao(E) ==
    LET E1 == AddRoles(E, ROLES)
        E2 == AddChannels(E1, ALL_CHANNELS)
        E3 == AddForumChannels(E2, FORUM_CHANNELS)
        E4 == AddUsers(E3, USERS)
    IN [E4 EXCEPT !.bot_user = DictGet(E4.env_users, "bot_user")]

\* the scenario runners call it once, on the environment just constructed
setup_jam_dao_structure ==
    /\ EnvRec = EmptyEnv
    /\ SetEnv(SetupJamDao(EnvRec))
    /\ result' = [op |-> "setup_jam_dao_structure"]
    /\ UNCHANGED <<taskVars, botVars>>

\* restricted_to lists a test passes to add_forum_channel
RestrictedToInputs ==
    { <<>>, <<"dao-team-representative">>, <<"Admin", Undeclared>>, <<Undeclared>> }

add_forum_channel(name, restricted_to) ==
    /\ SetEnv(AddForumChannel(EnvRec, name, <<>>, restricted_to))
    /\ result' = [op |-> "add_forum_channel", name |-> name,
                  restricted_to |-> restricted_to]
    /\ UNCHANGED <<taskVars, botVars>>

\* ---- entity operations: mocks/channel.py, forum_channel.py, thread.py,
\* ---- message.py ---------------------------------------------------------

\* thread names, as sequences of characters
TitlePlain == <<"A">>
TitleNum == <<"7", ":", " ", "A">>
TitleHash == <<"#", "7", ":", " ", "A">>
TitleRef == <<"R", "e", "f", " ", "7", ":", " ", "A">>

Titles == {TitlePlain, TitleNum, TitleHash, TitleRef}

\* the author of a message: a member of the guild, or a MockUser(0, name,
\* True) made for the occasion (member 0)
MemberAuthor(E, m) == [member |-> m, name |-> E.guild_members[m].name]
BotAuthor(name) == [member |-> 0, name |-> name]

\* the id a send gives the new message of a list (thread.py:56, channel.py:34,
\* forum_channel.py:50, feedback_command.py:136)
NextMessageId(messages) == Len(messages) + 1

\* MockMessage.__init__
NewMessage(messages, content, author) ==
    [id |-> NextMessageId(messages), content |-> content, author |-> author]

\* what a MagicMock gives for an attribute nobody set: an object equal to no
\* integer
MagicMockAttr == -1

\* MockThread.__init__: parent_id is read from the parent when the thread is
\* made (thread.py:31)
ParentId(E, parent) == E.guild_channels[parent].id

NewThread(E, id, name, parent) ==
    [kind |-> "MockThread", id |-> id, name |-> name, parent |-> parent,
     parent_id |-> ParentId(E, parent), messages |-> <<>>, applied_tags |-> <<>>]

\* MockTextChannel.send(content): the author is a new bot user
ChannelSend(E, c, content) ==
    [E EXCEPT !.guild_channels[c].messages =
        Append(@, NewMessage(@, content, BotAuthor("Bot")))]

\* MockThread.send(content, author=...)
ThreadSend(E, t, content, author) ==
    [E EXCEPT !.threads[t].messages = Append(@, NewMessage(@, content, author))]

\* MockTextChannel.create_thread(name), inherited by MockForumChannel
CreateThread(E, c, name) ==
    LET t == NewThread(E, Len(E.guild_channels[c].threads) + 1, name, c)
    IN [E EXCEPT !.threads = Append(@, t),
                 !.guild_channels[c].threads = Append(@, Len(E.threads) + 1)]

\* MockForumChannel.create_post(title, content, author, tags)
CreatePost(E, f, title, content, author, tags) ==
    LET forum == E.guild_channels[f]
        thread_id == Len(forum.posts) + 1000
        new == Len(E.threads) + 1
        thread == [NewThread(E, thread_id, title, f) EXCEPT
                      !.messages = <<NewMessage(<<>>, content, author)>>,
                      !.applied_tags = tags]
    IN [E EXCEPT !.threads = Append(@, thread),
                 !.guild_channels[f].posts = DictPut(@, thread_id, new),
                 !.guild_channels[f].threads = Append(@, new)]

\* ---- scenario operations: core/test_env_generic.py, test_env_jam_dao.py --

\* `role in forum.restricted_to` for some role of the author
\* (test_env_generic.py:190-195); roles are compared as objects
HasPermission_AnyRole(E, f, m) == E.guild_members[m].roles # <<>>
HasPermission(E, f, m) ==
    \E i \in 1..Len(E.guild_members[m].roles) :
        Contains(E.guild_channels[f].restricted_to, E.guild_members[m].roles[i])

\* test_env_generic.py:199-207: tag names to the forum's tags of that name
ResolveTags_All(available, names) == available
RECURSIVE ResolveTags(_, _)
ResolveTags(available, names) ==
    IF names = <<>> THEN <<>>
    ELSE SelectSeq(available, LAMBDA tag : tag.name = Head(names))
            \o ResolveTags(available, Tail(names))

\* how create_forum_post ends, before it changes anything
CreateForumPostOutcome(E, forum_name, author_name) ==
    IF DictGet(E.env_forum_channels, forum_name) = 0 THEN "ValueError"
    ELSE IF DictGet(E.env_users, author_name) = 0 THEN "ValueError"
    ELSE LET f == DictGet(E.env_forum_channels, forum_name)
             m == DictGet(E.env_users, author_name)
         IN IF E.guild_channels[f].restricted_to # <<>> /\ ~HasPermission(E, f, m)
            THEN "PermissionError"
            ELSE "ok"

\* DiscordTestEnvironment.create_forum_post
create_forum_post(title, content, forum_name, author_name, tags) ==
    LET E == EnvRec
        outcome == CreateForumPostOutcome(E, forum_name, author_name)
        f == DictGet(E.env_forum_channels, forum_name)
        m == DictGet(E.env_users, author_name)
    IN /\ IF outcome = "ok"
          THEN SetEnv(CreatePost(E, f, title, content, MemberAuthor(E, m),
                                 ResolveTags(E.guild_channels[f].available_tags, tags)))
          ELSE SetEnv(E)
       /\ result' = [op |-> "create_forum_post", outcome |-> outcome,
                     forum |-> forum_name, author |-> author_name, tags |-> tags,
                     thread |-> IF outcome = "ok" THEN Len(threads) + 1 ELSE 0]
       /\ UNCHANGED <<taskVars, botVars>>

\* awaiting thread.send(...) of a thread that is a MagicMock is a TypeError:
\* the call returns a MagicMock, which cannot be awaited
SendOutcome(E, t) == IF E.threads[t].kind = "MockThread" THEN "ok" ELSE "TypeError"

\* DiscordTestEnvironment.add_message_to_thread(thread, content, author_name)
add_message_to_thread(t, content, author_name) ==
    LET E == EnvRec
        m == DictGet(E.env_users, author_name)
        outcome == IF m = 0 THEN "ValueError" ELSE SendOutcome(E, t)
    IN /\ IF outcome = "ok"
          THEN SetEnv(ThreadSend(E, t, content, MemberAuthor(E, m)))
          ELSE SetEnv(E)
       /\ result' = [op |-> "add_message_to_thread", outcome |-> outcome,
                     thread |-> t, author |-> author_name, content |-> content]
       /\ UNCHANGED <<taskVars, botVars>>

\* the first thread of the forum's list with the id, 0 if none
\* (test_env_jam_dao.py:287-290)
FindThreadInForum(E, f, thread_id) ==
    LET list == E.guild_channels[f].threads
        hits == {i \in 1..Len(list) : E.threads[list[i]].id = thread_id}
    IN IF hits = {} THEN 0 ELSE list[CHOOSE i \in hits : \A j \in hits : i <= j]

\* JamDaoDiscordTestEnvironment.add_message_to_thread(thread, content,
\* author_name, thread_id, forum_name): thread 0, thread_id 0 and forum_name
\* "" stand for None.  The thread is looked up only when no thread is given
\* and both thread_id and forum_name are; what the parent method is then
\* called with may still be None, and None.send is an AttributeError
add_message_to_thread_jam_dao(thread, content, author_name, thread_id, forum_name) ==
    LET E == EnvRec
        lookup == thread = 0 /\ thread_id # 0 /\ forum_name # ""
        f == DictGet(E.env_forum_channels, forum_name)
        resolved == IF ~lookup THEN thread
                    ELSE IF f = 0 THEN 0
                    ELSE FindThreadInForum(E, f, thread_id)
        m == DictGet(E.env_users, author_name)
        outcome == IF lookup /\ resolved = 0 THEN "ValueError"
                   ELSE IF m = 0 THEN "ValueError"
                   ELSE IF resolved = 0 THEN "AttributeError"
                   ELSE SendOutcome(E, resolved)
    IN /\ IF outcome = "ok"
          THEN SetEnv(ThreadSend(E, resolved, content, MemberAuthor(E, m)))
          ELSE SetEnv(E)
       /\ result' = [op |-> "add_message_to_thread_jam_dao", outcome |-> outcome,
                     thread |-> thread, thread_id |-> thread_id,
                     forum_name |-> forum_name, author |-> author_name,
                     content |-> content]
       /\ UNCHANGED <<taskVars, botVars>>

\* the role names add_vote_to_referendum accepts (test_env_jam_dao.py:113)
VoteRoles_RepresentativeOnly == {"dao-team-representative"}
VoteRoles == {"dao-team-representative", "Admin"}

\* some role of member m has one of the names
HoldsRoleNamed(E, m, names) ==
    \E i \in 1..Len(E.guild_members[m].roles) :
        E.guild_roles[E.guild_members[m].roles[i]].name \in names

\* JamDaoDiscordTestEnvironment.add_vote_to_referendum
add_vote_to_referendum(t, vote_content, author_name) ==
    LET E == EnvRec
        m == DictGet(E.env_users, author_name)
        outcome == IF m = 0 THEN "ValueError"
                   ELSE IF ~HoldsRoleNamed(E, m, VoteRoles) THEN "PermissionError"
                   ELSE SendOutcome(E, t)
    IN /\ IF outcome = "ok"
          THEN SetEnv(ThreadSend(E, t, vote_content, MemberAuthor(E, m)))
          ELSE SetEnv(E)
       /\ result' = [op |-> "add_vote_to_referendum", outcome |-> outcome,
                     thread |-> t, author |-> author_name, content |-> vote_content]
       /\ UNCHANGED <<taskVars, botVars>>

\* DiscordTestEnvironment.simulate_message: channel.send, then the author of
\* the new message is replaced
simulate_message(channel_name, content, author_name) ==
    LET E == EnvRec
        c == DictGet(E.env_channels, channel_name)
        m == DictGet(E.env_users, author_name)
        outcome == IF c = 0 \/ m = 0 THEN "ValueError" ELSE "ok"
        E1 == ChannelSend(E, c, content)
        last == Len(E1.guild_channels[c].messages)
    IN /\ IF outcome = "ok"
          THEN SetEnv([E1 EXCEPT !.guild_channels[c].messages[last].author =
                                    MemberAuthor(E, m)])
          ELSE SetEnv(E)
       /\ result' = [op |-> "simulate_message", outcome |-> outcome,
                     channel |-> channel_name, author |-> author_name]
       /\ UNCHANGED <<taskVars, botVars>>

\* MockTextChannel.send called on a channel of the guild
channel_send(c, content) ==
    /\ SetEnv(ChannelSend(EnvRec, c, content))
    /\ result' = [op |-> "channel_send", channel |-> c]
    /\ UNCHANGED <<taskVars, botVars>>

\* MockTextChannel.create_thread called on a channel of the guild
create_thread(c, name) ==
    /\ SetEnv(CreateThread(EnvRec, c, name))
    /\ result' = [op |-> "create_thread", channel |-> c, thread |-> Len(threads) + 1]
    /\ UNCHANGED <<taskVars, botVars>>

\* MockMessage.delete of the message at position p of a channel's list: the
\* message removes itself from self.channel.messages
delete_channel_message(c, p) ==
    /\ SetEnv([EnvRec EXCEPT !.guild_channels[c].messages = RemoveAt(@, p)])
    /\ result' = [op |-> "delete", channel |-> c, position |-> p]
    /\ UNCHANGED <<taskVars, botVars>>

\* MockMessage.delete of the message at position p of a thread's list
delete_thread_message(t, p) ==
    /\ SetEnv([EnvRec EXCEPT !.threads[t].messages = RemoveAt(@, p)])
    /\ result' = [op |-> "delete", thread |-> t, position |-> p]
    /\ UNCHANGED <<taskVars, botVars>>

\* ---- the feedback command: mocks/feedback_command.py --------------------

\* a thread whose name is None (a post created with title=None)
NoneName == <<"None-object">>

Digits == {"0", "1", "2", "3", "4", "5", "6", "7", "8", "9"}

\* \s of the regular expressions
Whitespace == {" ", "\t", "\n"}

\* the length of the longest prefix of s made of characters of the set
RECURSIVE LeadingIn(_, _)
LeadingIn(s, set) ==
    IF s # <<>> /\ Head(s) \in set THEN 1 + LeadingIn(Tail(s), set) ELSE 0

StartsWith(s, prefix) ==
    Len(s) >= Len(prefix) /\ SubSeq(s, 1, Len(prefix)) = prefix

\* re.search(r'^#?(\d+):', name).group(1), <<>> when there is no match
\* (feedback_command.py:71)
ExtractNumber(name) ==
    LET s == IF name # <<>> /\ Head(name) = "#" THEN Tail(name) ELSE name
        n == LeadingIn(s, Digits)
    IN IF n >= 1 /\ Len(s) > n /\ s[n + 1] = ":" THEN SubSeq(s, 1, n) ELSE <<>>

\* re.match(rf'^Ref\s+{number}:', name) (feedback_command.py:106-108)
MatchesRef(name, number) ==
    /\ StartsWith(name, <<"R", "e", "f">>)
    /\ LET rest == SubSeq(name, 4, Len(name))
           w == LeadingIn(rest, Whitespace)
       IN /\ w >= 1
          /\ StartsWith(SubSeq(rest, w + 1, Len(rest)), number \o <<":">>)

\* f"Ref {thread_name}" (feedback_command.py:116)
RefName(thread_name) == <<"R", "e", "f", " ">> \o thread_name

\* TestConfig().DISCORD_FORUM_CHANNEL_ID: the configured forum id, the id
\* setup_jam_dao_structure gives the referendas forum
DISCORD_FORUM_CHANNEL_ID == 201

DeniedReply ==
    "You don't have permission to use this command. Only users with the @dao-team-representative role can provide feedback."
ScopeReply == "This command can only be used in threads within the #referendas channel."
NoNumberReply == "Could not determine the referendum number from this thread's name."
NoPublicChannelReply == "Error: Could not find the public-discussions channel"
PostedReply == "Your feedback has been anonymously posted to the public-discussions channel."
ExceptionReply == "Error in feedback command: TypeError"

\* interaction.followup.send(content=..., ephemeral=True)
Reply(content) == [content |-> content, ephemeral |-> TRUE]

\* interaction.channel: None, a channel of the guild, or a thread
NoChannel == [kind |-> "none", ref |-> 0]
ChannelRef(c) == [kind |-> "channel", ref |-> c]
ThreadRef(t) == [kind |-> "thread", ref |-> t]

\* the role names the feedback command accepts (feedback_command.py:31)
FeedbackRoles_WithParticipant == {"dao-team-representative", "Admin", "dao-participant"}
FeedbackRoles == {"dao-team-representative", "Admin"}

\* the first channel of the guild named public-discussions, 0 if none
\* (feedback_command.py:92-95)
PublicChannel(E) ==
    LET hits == {c \in 1..Len(E.guild_channels) :
                    E.guild_channels[c].name = "public-discussions"}
    IN IF hits = {} THEN 0 ELSE CHOOSE c \in hits : \A d \in hits : c <= d

\* the first thread of the channel's list whose name matches, 0 if none
\* (feedback_command.py:107-110)
FindRefThread(E, c, number) ==
    LET list == E.guild_channels[c].threads
        hits == {i \in 1..Len(list) : MatchesRef(E.threads[list[i]].name, number)}
    IN IF hits = {} THEN 0 ELSE list[CHOOSE i \in hits : \A j \in hits : i <= j]

\* re.match is given a name that is None before it finds a match
\* (feedback_command.py:107-110): a TypeError
SearchRaises(E, c, number) ==
    LET list == E.guild_channels[c].threads
    IN \E i \in 1..Len(list) :
          /\ E.threads[list[i]].name = NoneName
          /\ \A j \in 1..(i - 1) : ~MatchesRef(E.threads[list[j]].name, number)

\* the MagicMock the command makes when no thread matches
\* (feedback_command.py:115-120): name, id, messages and guild are set, and
\* every other attribute, parent and parent_id among them, is a MagicMock
NewMagicMockThread(E, c, thread_name) ==
    [kind |-> "MagicMock", id |-> Len(E.guild_channels[c].threads) + 1000,
     name |-> RefName(thread_name), parent |-> 0, parent_id |-> MagicMockAttr,
     messages |-> <<>>, applied_tags |-> <<>>]

\* feedback_command.py:113-121
CreateRefThread(E, c, thread_name) ==
    [E EXCEPT !.threads = Append(@, NewMagicMockThread(E, c, thread_name)),
              !.guild_channels[c].threads = Append(@, Len(E.threads) + 1)]

\* the author of the feedback message when member m invokes the command: a
\* MockUser(0, "JAM-DAO-Bot", True) made for it (feedback_command.py:130)
FeedbackAuthor_Invoker(E, m) == MemberAuthor(E, m)
FeedbackAuthor(E, m) == BotAuthor("JAM-DAO-Bot")

\* feedback_command.py:133-149
PostFeedback(E, m, t, message) ==
    [E EXCEPT !.threads[t].messages =
        Append(@, NewMessage(@, "**Feedback:** " \o message, FeedbackAuthor(E, m)))]

\* what the body of the try block leaves behind
Done(E, replies) == [env |-> E, replies |-> replies, raised |-> "none"]
Raised(E, exc) == [env |-> E, replies |-> <<>>, raised |-> exc]

\* the try block of mock_feedback (feedback_command.py:26-163), for member
\* m, interaction.channel ch, the feedback text and public_thread (a thread,
\* 0 for None)
FeedbackBody(E, m, ch, message, public_thread) ==
    IF ~HoldsRoleNamed(E, m, FeedbackRoles) THEN Done(E, <<Reply(DeniedReply)>>)
    ELSE IF ch.kind # "thread" THEN Done(E, <<Reply(ScopeReply)>>)
    ELSE IF E.threads[ch.ref].parent_id # DISCORD_FORUM_CHANNEL_ID
         THEN Done(E, <<Reply(ScopeReply)>>)
    ELSE LET thread_name == E.threads[ch.ref].name
             number == ExtractNumber(thread_name)
             pub == PublicChannel(E)
             found == FindRefThread(E, pub, number)
             E1 == IF found = 0 THEN CreateRefThread(E, pub, thread_name) ELSE E
             target == IF found = 0 THEN Len(E.threads) + 1 ELSE found
         IN IF thread_name = NoneName THEN Raised(E, "TypeError")
            ELSE IF number = <<>> THEN Done(E, <<Reply(NoNumberReply)>>)
            ELSE IF public_thread # 0
                 THEN Done(PostFeedback(E, m, public_thread, message), <<Reply(PostedReply)>>)
            ELSE IF pub = 0 THEN Done(E, <<Reply(NoPublicChannelReply)>>)
            ELSE IF SearchRaises(E, pub, number) THEN Raised(E, "TypeError")
            ELSE Done(PostFeedback(E1, m, target, message), <<Reply(PostedReply)>>)

\* mock_feedback: the except clause answers any exception of the body with
\* one more follow-up (feedback_command.py:165-170)
MockFeedback_NoHandler(E, m, ch, message, public_thread) ==
    FeedbackBody(E, m, ch, message, public_thread)
MockFeedback(E, m, ch, message, public_thread) ==
    LET body == FeedbackBody(E, m, ch, message, public_thread)
    IN IF body.raised = "none" THEN body
       ELSE [env |-> body.env,
             replies |-> Append(body.replies, Reply(ExceptionReply)),
             raised |-> "none"]

\* ---- simulate_slash_command: core/test_env_jam_dao.py ---------------------

\* the first thread with the id, forums taken in the order of the
\* forum_channels dict, threads in list order; 0 if none
\* (test_env_jam_dao.py:180-186)
RECURSIVE FindThreadById(_, _, _)
FindThreadById(E, forums, thread_id) ==
    IF forums = <<>> THEN 0
    ELSE LET list == E.guild_channels[Head(forums).value].threads
             hits == {i \in 1..Len(list) : E.threads[list[i]].id = thread_id}
         IN IF hits # {} THEN list[CHOOSE i \in hits : \A j \in hits : i <= j]
            ELSE FindThreadById(E, Tail(forums), thread_id)

\* where the command is invoked: a thread id, a channel name, or neither
NoTarget == [thread_id |-> 0, channel_name |-> ""]
ByThreadId(id) == [thread_id |-> id, channel_name |-> ""]
ByChannelName(name) == [thread_id |-> 0, channel_name |-> name]

\* test_env_jam_dao.py:176-196: interaction.channel, or "ValueError"
ResolveTarget(E, target) ==
    IF target.thread_id # 0
    THEN LET t == FindThreadById(E, E.env_forum_channels, target.thread_id)
         IN IF t = 0 THEN [kind |-> "ValueError", ref |-> 0] ELSE ThreadRef(t)
    ELSE IF target.channel_name # ""
    THEN IF DictGet(E.env_channels, target.channel_name) # 0
         THEN ChannelRef(DictGet(E.env_channels, target.channel_name))
         ELSE IF DictGet(E.env_forum_channels, target.channel_name) # 0
         THEN ChannelRef(DictGet(E.env_forum_channels, target.channel_name))
         ELSE [kind |-> "ValueError", ref |-> 0]
    ELSE NoChannel

\* the result summary (test_env_jam_dao.py:227-234): the last follow-up
Summary(replies) ==
    IF replies = <<>>
    THEN [response_sent |-> FALSE, response_content |-> "None", ephemeral |-> FALSE]
    ELSE [response_sent |-> TRUE, response_content |-> replies[Len(replies)].content,
          ephemeral |-> replies[Len(replies)].ephemeral]

\* simulate_slash_command("feedback", options, user_name, thread_id,
\* channel_name, public_thread); has_message: options holds "message"
simulate_feedback(has_message, message, user_name, target, public_thread) ==
    LET E == EnvRec
        m == DictGet(E.env_users, user_name)
        ch == ResolveTarget(E, target)
        raises == m = 0 \/ ch.kind = "ValueError" \/ ~has_message
        run == MockFeedback(E, m, ch, message, public_thread)
    IN /\ IF raises
          THEN /\ SetEnv(E)
               /\ result' = [op |-> "feedback", outcome |-> "ValueError",
                             dispatched |-> FALSE, user |-> user_name,
                             channel |-> ch, public_thread |-> public_thread,
                             replies |-> <<>>,
                             summary |-> Summary(<<>>)]
          ELSE /\ SetEnv(run.env)
               /\ result' = [op |-> "feedback",
                             outcome |-> IF run.raised = "none" THEN "ok" ELSE run.raised,
                             dispatched |-> TRUE, user |-> user_name,
                             channel |-> ch, public_thread |-> public_thread,
                             replies |-> run.replies,
                             summary |-> Summary(run.replies)]
       /\ UNCHANGED <<taskVars, botVars>>

\* ---- the vote command: mocks/vote_command.py -----------------------------

\* TestConfig().DISCORD_VOTER_ROLE_NAME: the single configured voter role
DISCORD_VOTER_ROLE_NAME == "dao-team-representative"

\* decision.value.upper()
Upper(value) ==
    CASE value = "aye" -> "AYE"
      [] value = "nay" -> "NAY"
      [] value = "abstain" -> "ABSTAIN"

\* interaction.followup.send(content=..., ephemeral=...)
VoteReply(content, ephemeral) == [content |-> content, ephemeral |-> ephemeral]

VoteDeniedReply ==
    VoteReply("You don't have permission to vote. Only users with the @"
                  \o DISCORD_VOTER_ROLE_NAME \o " role can vote.", TRUE)

InitializingReply == VoteReply("Initializing extrinsic, please wait...", TRUE)

\* vote_command.py:119-122
ConfirmationReply_Ephemeral(referendum, conviction, decision) ==
    VoteReply("Vote " \o Upper(decision) \o " with " \o conviction
                  \o " conviction on referendum #" \o referendum \o " has been cast!",
              TRUE)
ConfirmationReply(referendum, conviction, decision) ==
    VoteReply("Vote " \o Upper(decision) \o " with " \o conviction
                  \o " conviction on referendum #" \o referendum \o " has been cast!",
              FALSE)

\* mock_vote for member m, with conviction and decision given as choices
\* (objects with a value): the follow-ups it sends, in order
MockVote(E, m, referendum, conviction, decision) ==
    IF ~HoldsRoleNamed(E, m, {DISCORD_VOTER_ROLE_NAME}) THEN <<VoteDeniedReply>>
    ELSE <<InitializingReply, ConfirmationReply(referendum, conviction, decision)>>

\* simulate_slash_command("vote", options, user_name, thread_id,
\* channel_name); has_options: options holds referendum, conviction and
\* decision
simulate_vote(has_options, referendum, conviction, decision, user_name, target) ==
    LET E == EnvRec
        m == DictGet(E.env_users, user_name)
        ch == ResolveTarget(E, target)
        raises == m = 0 \/ ch.kind = "ValueError" \/ ~has_options
        replies == IF raises THEN <<>> ELSE MockVote(E, m, referendum, conviction, decision)
    IN /\ SetEnv(E)
       /\ result' = [op |-> "vote", outcome |-> IF raises THEN "ValueError" ELSE "ok",
                     dispatched |-> ~raises, user |-> user_name, channel |-> ch,
                     referendum |-> referendum, conviction |-> conviction,
                     decision |-> decision, replies |-> replies,
                     summary |-> Summary(replies)]
       /\ UNCHANGED <<taskVars, botVars>>

\* ---- quorum: core/test_env_jam_dao.py -------------------------------------

\* some role of member m is named dao-team-representative
\* (test_env_jam_dao.py:133-134)
IsRepresentative(E, m) == HoldsRoleNamed(E, m, {"dao-team-representative"})

\* JamDaoDiscordTestEnvironment.get_quorum_eligible_users: the values of the
\* users dict, in its order, that hold the role
GetQuorumEligibleUsers(E) ==
    LET eligible == SelectSeq(E.env_users, LAMBDA entry : IsRepresentative(E, entry.value))
    IN [i \in 1..Len(eligible) |-> eligible[i].value]

\* a float that is the quotient of two integers
Ratio(num, den) == [num |-> num, den |-> den]

\* JamDaoDiscordTestEnvironment.calculate_quorum_percentage
CalculateQuorumPercentage(E, votes_count) ==
    LET eligible_users == GetQuorumEligibleUsers(E)
    IN IF eligible_users = <<>> THEN Ratio(0, 1)
       ELSE Ratio(votes_count * 100, Len(eligible_users))

\* DiscordTestEnvironment.add_role(name)
add_role(name) ==
    /\ SetEnv(AddRole(EnvRec, name))
    /\ result' = [op |-> "add_role", name |-> name]
    /\ UNCHANGED <<taskVars, botVars>>

\* DiscordTestEnvironment.add_user(name, roles=...)
add_user(name, roles) ==
    /\ SetEnv(AddUser(EnvRec, name, roles))
    /\ result' = [op |-> "add_user", name |-> name]
    /\ UNCHANGED <<taskVars, botVars>>

\* DiscordTestEnvironment.add_channel(name, restricted_to=...)
add_channel(name, restricted_to) ==
    /\ SetEnv(AddChannel(EnvRec, name, restricted_to))
    /\ result' = [op |-> "add_channel", name |-> name]
    /\ UNCHANGED <<taskVars, botVars>>

\* the first position of x in s
IndexOf(s, x) == CHOOSE i \in 1..Len(s) : s[i] = x /\ \A j \in 1..(i - 1) : s[j] # x

\* for role in roles: if role in held: held.remove(role) (member.py:31-33)
RECURSIVE RemoveRoles(_, _)
RemoveRoles(held, roles) ==
    IF roles = <<>> THEN held
    ELSE RemoveRoles(IF Contains(held, Head(roles))
                     THEN RemoveAt(held, IndexOf(held, Head(roles)))
                     ELSE held,
                     Tail(roles))

\* MockMember.add_roles(*roles) on member m: self.roles.extend(roles)
add_roles(m, roles) ==
    /\ guild_members' = [guild_members EXCEPT ![m].roles = @ \o roles]
    /\ result' = [op |-> "add_roles", member |-> m]
    /\ UNCHANGED <<guild_roles, guild_channels, env_roles, env_users, env_channels,
                   env_forum_channels, threads, bot_user>>
    /\ UNCHANGED <<taskVars, botVars>>

\* MockMember.remove_roles(*roles) on member m
remove_roles(m, roles) ==
    /\ guild_members' = [guild_members EXCEPT ![m].roles = RemoveRoles(@, roles)]
    /\ result' = [op |-> "remove_roles", member |-> m]
    /\ UNCHANGED <<guild_roles, guild_channels, env_roles, env_users, env_channels,
                   env_forum_channels, threads, bot_user>>
    /\ UNCHANGED <<taskVars, botVars>>

get_quorum_eligible_users ==
    /\ SetEnv(EnvRec)
    /\ result' = [op |-> "get_quorum_eligible_users",
                  users |-> GetQuorumEligibleUsers(EnvRec)]
    /\ UNCHANGED <<taskVars, botVars>>

\* calculate_quorum_percentage(votes_count); thread: the thread whose votes
\* were counted, 0 when the count was given as such
calculate_quorum_percentage(votes_count, thread) ==
    /\ SetEnv(EnvRec)
    /\ result' = [op |-> "calculate_quorum_percentage", votes_count |-> votes_count,
                  thread |-> thread,
                  value |-> CalculateQuorumPercentage(EnvRec, votes_count)]
    /\ UNCHANGED <<taskVars, botVars>>

\* ---- the calls a scenario makes, with the arguments the model tries -----

AuthorInputs == UserNames \cup {Undeclared}

TagInputs == <<"MediumSpender", "Unknown">>

VoteContents == {"!vote yes"}

\* no thread list and no message list is full
Room(maxThreads, maxMsgs) ==
    /\ Len(threads) < maxThreads
    /\ \A t \in 1..Len(threads) : Len(threads[t].messages) < maxMsgs
    /\ \A c \in 1..Len(guild_channels) : Len(guild_channels[c].messages) < maxMsgs

\* Spec: forum posts, threads and the feedback command

ReferendaTitles == {TitleNum, TitleHash, TitlePlain, NoneName}

PublicTitles == {TitleRef, NoneName}

FeedbackUsers == {"dao_rep1", "admin_user", "participant1", Undeclared}

TargetInputs ==
    {NoTarget, ByThreadId(1), ByThreadId(1000), ByChannelName("referendas")}

create_referendum_postStep ==
    /\ Room(MaxThreads, MaxMsgs)
    /\ \E title \in ReferendaTitles :
           create_forum_post(title, "post", "referendas", "dao_rep1", <<>>)

create_public_postStep ==
    /\ Room(MaxThreads, MaxMsgs)
    /\ \E title \in PublicTitles :
           create_forum_post(title, "post", "public-discussions", "dao_rep1", <<>>)

create_threadStep ==
    /\ Room(MaxThreads, MaxMsgs)
    /\ \E name \in ChannelNames :
           /\ DictGet(env_channels, name) # 0
           /\ create_thread(DictGet(env_channels, name), TitleNum)

simulate_feedbackStep ==
    /\ Room(MaxThreads, MaxMsgs)
    /\ \E user_name \in FeedbackUsers, target \in TargetInputs,
          public_thread \in {0, Len(threads)} :
           simulate_feedback(TRUE, "text", user_name, target, public_thread)

simulate_feedbackNoMessageStep ==
    simulate_feedback(FALSE, "text", "dao_rep1", NoTarget, 0)

Next ==
    \/ setup_jam_dao_structure
    \/ create_referendum_postStep
    \/ create_public_postStep
    \/ create_threadStep
    \/ simulate_feedbackStep
    \/ simulate_feedbackNoMessageStep

\* SpecMessages: sends and deletes on one text channel and one forum post

\* tag name lists a post is created with: none, a known and an unknown
\* name, known names with a repetition
TagListInputs ==
    { <<>>, TagInputs, <<"SmallSpender", "MediumSpender", "SmallSpender">> }

MessagesPostStep ==
    /\ threads = <<>>
    /\ \E forum_name \in {"referendas", "public-discussions"}, tags \in TagListInputs :
           create_forum_post(TitleNum, "post", forum_name, "dao_rep1", tags)

MessagesThreadSendStep ==
    \E t \in 1..Len(threads) :
        /\ Len(threads[t].messages) < MaxSends
        /\ add_message_to_thread(t, "hello", "dao_rep1")

MessagesChannelSendStep ==
    \E name \in ChannelNames :
        /\ DictGet(env_channels, name) # 0
        /\ Len(guild_channels[DictGet(env_channels, name)].messages) < MaxSends
        /\ channel_send(DictGet(env_channels, name), "hello")

delete_channel_messageStep ==
    \E c \in 1..Len(guild_channels) :
        \E p \in 1..Len(guild_channels[c].messages) : delete_channel_message(c, p)

delete_thread_messageStep ==
    \E t \in 1..Len(threads) :
        \E p \in 1..Len(threads[t].messages) : delete_thread_message(t, p)

NextMessages ==
    \/ setup_jam_dao_structure
    \/ MessagesPostStep
    \/ MessagesThreadSendStep
    \/ MessagesChannelSendStep
    \/ delete_channel_messageStep
    \/ delete_thread_messageStep

\* SpecPermissions: a restricted forum, posting and voting by every user

add_forum_channelStep ==
    /\ Len(guild_channels) < MaxChannels
    /\ \E restricted_to \in RestrictedToInputs :
           add_forum_channel("representatives-forum", restricted_to)

PermissionsPostStep ==
    /\ Room(MaxPosts, MaxVotes)
    /\ \E forum_name \in {"referendas", "representatives-forum", Undeclared},
          author_name \in AuthorInputs :
           create_forum_post(TitleNum, "post", forum_name, author_name, TagInputs)

add_vote_to_referendumStep ==
    /\ Room(MaxPosts + 1, MaxVotes)
    /\ \E t \in 1..Len(threads), content \in VoteContents, author_name \in AuthorInputs :
           add_vote_to_referendum(t, content, author_name)

simulate_voteStep ==
    \E user_name \in AuthorInputs, target \in {NoTarget, ByThreadId(1000)} :
        simulate_vote(TRUE, "7", "x2", "nay", user_name, target)

simulate_voteNoOptionsStep ==
    simulate_vote(FALSE, "7", "x2", "aye", "dao_rep1", NoTarget)

NextPermissions ==
    \/ setup_jam_dao_structure
    \/ simulate_voteStep
    \/ simulate_voteNoOptionsStep
    \/ add_forum_channelStep
    \/ PermissionsPostStep
    \/ add_vote_to_referendumStep

\* SpecQuorum: roles and users added to the fixture's by hand, votes on one
\* referendum, and the quorum of the votes

\* the messages add_vote_to_referendum appended to thread t
VoteCount(t) ==
    Len(SelectSeq(threads[t].messages, LAMBDA msg : msg.content \in VoteContents))

add_roleStep ==
    /\ bot_user # 0
    /\ Len(guild_roles) < MaxRoles
    /\ add_role("dao-team-representative")

add_userStep ==
    /\ bot_user # 0
    /\ Len(guild_members) < MaxMembers
    /\ \E name \in {"dao_rep1", "dao_rep2"},
          roles \in { <<>>, <<"dao-team-representative">>,
                      <<"dao-team-representative", "dao-team-representative">> } :
           add_user(name, roles)

QuorumPostStep ==
    /\ threads = <<>>
    /\ create_forum_post(TitleNum, "post", "referendas", "dao_rep1", <<>>)

QuorumVoteStep ==
    \E t \in 1..Len(threads), author_name \in {"dao_rep1", "admin_user", "participant1"} :
        /\ VoteCount(t) < MaxVotesCount
        /\ add_vote_to_referendum(t, "!vote yes", author_name)

calculate_quorum_percentageStep ==
    \E votes_count \in 0..MaxVotesCount : calculate_quorum_percentage(votes_count, 0)

referendum_quorumStep ==
    \E t \in 1..Len(threads) : calculate_quorum_percentage(VoteCount(t), t)

NextQuorum ==
    \/ setup_jam_dao_structure
    \/ add_roleStep
    \/ add_userStep
    \/ QuorumPostStep
    \/ QuorumVoteStep
    \/ get_quorum_eligible_users
    \/ calculate_quorum_percentageStep
    \/ referendum_quorumStep

\* SpecLookups: every scenario operation, with names and ids that exist and
\* with ones that do not

LookupUsers == {"dao_rep1", Undeclared}

LookupsPostStep ==
    /\ Room(MaxPosts, MaxVotes)
    /\ \E forum_name \in {"referendas", Undeclared}, author_name \in LookupUsers :
           create_forum_post(TitleNum, "post", forum_name, author_name, <<>>)

LookupsMessageStep ==
    /\ Room(MaxPosts + 2, MaxVotes)
    /\ \E thread \in 0..Len(threads), thread_id \in {0, 1000, 1001},
          forum_name \in {"", "referendas", Undeclared}, author_name \in LookupUsers :
           add_message_to_thread_jam_dao(thread, "hello", author_name, thread_id, forum_name)

LookupsVoteStep ==
    /\ Room(MaxPosts + 2, MaxVotes)
    /\ \E t \in 1..Len(threads), author_name \in LookupUsers :
           add_vote_to_referendum(t, "!vote yes", author_name)

simulate_messageStep ==
    /\ Room(MaxPosts + 2, MaxVotes)
    /\ \E channel_name \in ChannelNames \cup {Undeclared}, author_name \in LookupUsers :
           simulate_message(channel_name, "hello", author_name)

LookupsFeedbackStep ==
    /\ Room(MaxPosts + 1, MaxVotes)
    /\ \E user_name \in LookupUsers,
          target \in {NoTarget, ByThreadId(1000), ByThreadId(1001),
                      ByChannelName(Undeclared)} :
           simulate_feedback(TRUE, "text", user_name, target, 0)

LookupsVoteCommandStep ==
    \E user_name \in LookupUsers, target \in {NoTarget, ByThreadId(1001)} :
        simulate_vote(TRUE, "7", "x2", "nay", user_name, target)

NextLookups ==
    \/ setup_jam_dao_structure
    \/ LookupsPostStep
    \/ LookupsMessageStep
    \/ LookupsVoteStep
    \/ simulate_messageStep
    \/ LookupsFeedbackStep
    \/ LookupsVoteCommandStep

\* ------------------------------------------------------------------------
\* MockBot commands: mocks/bot.py
\*
\* A message content and a command name are sequences of characters.
\* ------------------------------------------------------------------------
CommandPrefix == "!"

NameVote == <<"v">>
NameHelp == <<"h">>

\* the names commands are registered under
CommandNames == {NameVote, NameHelp}

\* the message contents process_command is given
CommandContents ==
    { <<"h", "i">>,
      <<"!", "v">>,
      <<"!", "v", " ", "y">>,
      <<"!", " ", "h">>,
      <<"!", "x">>,
      <<"!", "x", " ", "v">>,
      <<"!">>,
      <<"!", " ">>,
      <<>> }

\* the length of the longest prefix of s made of characters outside the set
RECURSIVE LeadingNotIn(_, _)
LeadingNotIn(s, set) ==
    IF s # <<>> /\ Head(s) \notin set THEN 1 + LeadingNotIn(Tail(s), set) ELSE 0

\* s.split()[:1]: the first whitespace-delimited token of s in a list, the
\* empty list when s is empty or all whitespace (bot.py:63)
FirstToken(s) ==
    LET rest == SubSeq(s, LeadingIn(s, Whitespace) + 1, Len(s))
    IN IF rest = <<>> THEN <<>>
       ELSE <<SubSeq(rest, 1, LeadingNotIn(rest, Whitespace))>>

\* MockBot.command(name)(func): the function of the name, replaced by a
\* later registration
command(name, f) ==
    /\ commands' = DictPut(commands, name, f)
    /\ UNCHANGED <<event_handlers, listeners, dispatches, registered, processed>>
    /\ UNCHANGED <<taskVars, envVars>>

\* MockBot.process_command(message), the handler returning or raising as
\* handler_raises says: cmd_parts[0] raises IndexError when nothing follows
\* the prefix but whitespace
process_command(content, handler_raises) ==
    LET prefixed == content # <<>> /\ Head(content) = CommandPrefix
        cmd_parts == IF prefixed THEN FirstToken(Tail(content)) ELSE <<>>
        func == IF cmd_parts = <<>> THEN 0 ELSE DictGet(commands, cmd_parts[1])
        outcome == IF ~prefixed THEN "ok"
                   ELSE IF cmd_parts = <<>> THEN "IndexError"
                   ELSE IF func = 0 THEN "ok"
                   ELSE IF handler_raises THEN "raised" ELSE "ok"
        invoked == IF func = 0 THEN <<>>
                   ELSE <<[func |-> func, args |-> <<"bot", content>>]>>
    IN /\ processed' = [op |-> "process_command", content |-> content,
                        outcome |-> outcome, invoked |-> invoked]
       /\ UNCHANGED <<event_handlers, listeners, dispatches, registered, commands>>
       /\ UNCHANGED <<taskVars, envVars>>

commandStep == \E name \in CommandNames, f \in Funcs : command(name, f)

process_commandStep ==
    \E content \in CommandContents, handler_raises \in BOOLEAN :
        process_command(content, handler_raises)

\* Spec: commands, and events nobody registered for
NextCommands ==
    \/ commandStep
    \/ process_commandStep
    \/ triggerStep
    \/ DispatchBeginStep

\* SpecStructure: roles, channels, forums and users added by hand, in any
\* order and with repeated names, to an environment that starts empty

\* the entities added so far
Added == Len(guild_roles) + Len(guild_channels) + Len(guild_members)

StructureRestrictions == { <<>>, <<"Admin", Undeclared>> }

StructureRoleLists == { <<>>, <<"Admin", "Admin">>, <<"Admin", Undeclared>> }

StructureRoleStep ==
    /\ Added < MaxAdds
    /\ \E name \in {"Admin", "dao-participant"} : add_role(name)

StructureChannelStep ==
    /\ Added < MaxAdds
    /\ \E restricted_to \in StructureRestrictions :
           add_channel("coordination-representatives", restricted_to)

StructureForumStep ==
    /\ Added < MaxAdds
    /\ \E restricted_to \in StructureRestrictions :
           add_forum_channel("referendas", restricted_to)

StructureUserStep ==
    /\ Added < MaxAdds
    /\ \E name \in {"dao_rep1", "participant1"}, roles \in StructureRoleLists :
           add_user(name, roles)

add_rolesStep ==
    \E m \in 1..Len(guild_members), r \in 1..Len(guild_roles) :
        /\ Len(guild_members[m].roles) < MaxHeld
        /\ add_roles(m, <<r>>)

remove_rolesStep ==
    \E m \in 1..Len(guild_members), r \in 1..Len(guild_roles) :
        \E roles \in { <<r>>, <<r, r>> } : remove_roles(m, roles)

NextStructure ==
    \/ StructureRoleStep
    \/ StructureChannelStep
    \/ StructureForumStep
    \/ StructureUserStep
    \/ add_rolesStep
    \/ remove_rolesStep

Init == TaskInit /\ BotInit /\ EnvInit

Spec == Init /\ [][Next]_vars

SpecMessages == Init /\ [][NextMessages]_vars

SpecPermissions == Init /\ [][NextPermissions]_vars

SpecQuorum == Init /\ [][NextQuorum]_vars

SpecLookups == Init /\ [][NextLookups]_vars

SpecStructure == Init /\ [][NextStructure]_vars

SpecTask == Init /\ [][NextTask]_vars

SpecTaskLive == Init /\ [][NextTaskLive]_vars /\ TaskFairness

SpecBot == Init /\ [][NextBot]_vars

SpecCommands == Init /\ [][NextCommands]_vars

\* ========================================================================
\* Claims about the Scheduled Task Emulator (checked under SpecTask)
\* ========================================================================

LastCall == IF calls = <<>> THEN "none" ELSE calls[Len(calls)]

\* a loop that can still invoke the callback: not finished, no cancellation
\* pending
Live(t) == ~Finished(t) /\ ~t.must_cancel

\* C5: once stop() has returned, no new invocation of the callback begins
\* until start() is called again: in every step that starts and ends with the
\* flag cleared (any step between a stop() and the next start()), the number
\* of invocations begun does not change.
C5_NoInvocationAfterStop ==
    [][(~running /\ ~running') => started' = started]_vars

\* C5 witness: stop() was called while an earlier loop was still alive and
\* the current one was pending; the earlier loop observed the flag and
\* returned, the current one was cancelled, after at least one invocation.
C5_Witness ==
    /\ ~running
    /\ LastCall = "stop"
    /\ started >= 1
    /\ Len(tasks) = 2
    /\ tasks[1].pc = "done"
    /\ tasks[2].pc = "cancelled"

\* C6: the callback of one task loop is never re-entered: at most one
\* invocation of it is in progress at any time.
C6_NeverReentered == active <= 1

\* C7: is_running() is false after construction, true after any start() and
\* false after any stop(), whatever the loops did in between; stop() before
\* any start() and repeated stop() leave the task stopped.
C7_IsRunningFollowsCalls ==
    /\ (LastCall = "none" => ~running)
    /\ (LastCall = "start" => running)
    /\ (LastCall = "stop" => ~running)
    /\ (LastCall = "stop" /\ curTask # 0 => ~Live(tasks[curTask]))

\* C7 witness: stop() called twice in a row before any start().
C7_Witness ==
    /\ calls = <<"stop", "stop">>
    /\ tasks = <<>>
    /\ curTask = 0
    /\ ~running

\* C8: after the callback of a running task loop raised, the task is never
\* left reporting is_running() true with no loop that will invoke the
\* callback again.
C8_NoRunningWithoutLoop ==
    (running /\ \E i \in 1..Len(tasks) : tasks[i].pc = "failed")
        => \E j \in 1..Len(tasks) : Live(tasks[j])

\* ========================================================================
\* Claims about the Bot Runtime Emulator (checked under SpecBot)
\* ========================================================================

\* the entries of a log that begin a function of the given kind
Begins(log, kind) ==
    SelectSeq(log, LAMBDA e : e[1] = "begin" /\ e[2] = kind)

\* every function begun in the log ended before the next one began: entries
\* come in pairs, a begin followed by the end (or raise) of the same function,
\* and nothing follows a raise
OneAtATime(log) ==
    \A k \in 1..Len(log) :
        IF k % 2 = 1
        THEN /\ log[k][1] = "begin"
             /\ k > 1 => log[k-1][1] = "end"
        ELSE /\ log[k][1] \in {"end", "raise"}
             /\ log[k][2] = log[k-1][2]
             /\ log[k][3] = log[k-1][3]

\* C9: within one trigger_event call the single handler, if it runs, runs
\* first and to completion before any listener starts; the listeners then run
\* one at a time, each finishing before the next starts, in the order in
\* which listen() registered them for that event.
C9_HandlerThenListenersInOrder ==
    \A c \in 1..Len(dispatches) :
        LET d == dispatches[c]
            ls == Begins(d.log, "listener")
        IN /\ OneAtATime(d.log)
           /\ \A k \in 1..Len(d.log) : d.log[k][2] = "handler" => k <= 2
           /\ Len(ls) <= Len(registered[d.name])
           /\ \A j \in 1..Len(ls) : ls[j][3] = registered[d.name][j]
           /\ d.stage = "returned" => Len(ls) = d.idx - 1

\* C9 witness: a call that returned after running the handler and then two
\* different listeners.
C9_Witness ==
    \E c \in 1..Len(dispatches) :
        LET d == dispatches[c]
        IN /\ d.stage = "returned"
           /\ Len(d.log) = 6
           /\ d.log[1][2] = "handler"
           /\ d.log[3][3] # d.log[5][3]

\* ---- message ids, parent ids ---------------------------------------------

\* the ids of a message list grow strictly from each message to the next
IdsIncrease(messages) ==
    \A i \in 1..(Len(messages) - 1) : messages[i].id < messages[i + 1].id

\* C1: after any sequence of sends, posts and deletes, the ids of the
\* messages in every channel's and every thread's message list are pairwise
\* distinct and strictly increasing in list order.
C1_MessageIdsStrictlyIncreasing ==
    /\ \A c \in 1..Len(guild_channels) : IdsIncrease(guild_channels[c].messages)
    /\ \A t \in 1..Len(threads) : IdsIncrease(threads[t].messages)

\* C2: every thread in the thread list of a channel or forum, however it was
\* created, has the id of that channel as its parent_id.
C2_ThreadParentIdIsParentsId ==
    \A c \in 1..Len(guild_channels) :
        \A i \in 1..Len(guild_channels[c].threads) :
            threads[guild_channels[c].threads[i]].parent_id = guild_channels[c].id

\* ---- permissions ---------------------------------------------------------

\* the step appends one message with the content, written by the user of
\* that name, to thread t and changes no other thread
AppendsOne(t, content, author_name) ==
    /\ Len(threads') = Len(threads)
    /\ \A u \in 1..Len(threads) : u # t => threads'[u] = threads[u]
    /\ Len(threads'[t].messages) = Len(threads[t].messages) + 1
    /\ SubSeq(threads'[t].messages, 1, Len(threads[t].messages)) = threads[t].messages
    /\ threads'[t].messages[Len(threads'[t].messages)].content = content
    /\ threads'[t].messages[Len(threads'[t].messages)].author.name = author_name

\* C3: add_vote_to_referendum by an existing author appends exactly one
\* message, with the content and the author given, at the end of the thread
\* when the author holds a role named dao-team-representative or Admin, and
\* otherwise raises a permission error and leaves every message list as it
\* was.
C3_VoteGate ==
    [][LET r == result'
           m == DictGet(env_users, r.author)
       IN (r.op = "add_vote_to_referendum" /\ m # 0) =>
             IF \E i \in 1..Len(guild_members[m].roles) :
                    guild_roles[guild_members[m].roles[i]].name
                        \in {"dao-team-representative", "Admin"}
             THEN r.outcome = "ok" /\ AppendsOne(r.thread, r.content, r.author)
             ELSE r.outcome = "PermissionError" /\ threads' = threads]_vars

\* a vote cast by admin_user, who holds Admin only, is the last message of
\* its thread
C3_Witness ==
    /\ result.op = "add_vote_to_referendum"
    /\ result.outcome = "ok"
    /\ result.author = "admin_user"
    /\ LET messages == threads[result.thread].messages
       IN /\ Len(messages) >= 2
          /\ messages[Len(messages)].content = result.content
          /\ messages[Len(messages)].author.name = "admin_user"

\* C4: create_forum_post by an existing author on an existing forum with a
\* non-empty restriction succeeds only when the author holds a role of the
\* restriction, and otherwise raises a permission error and leaves the
\* forum's thread list and posts map as they were; on a forum with no
\* restriction every existing author succeeds.
C4_ForumRestriction ==
    [][LET r == result'
           f == DictGet(env_forum_channels, r.forum)
           m == DictGet(env_users, r.author)
       IN (r.op = "create_forum_post" /\ f # 0 /\ m # 0) =>
             IF \/ guild_channels[f].restricted_to = <<>>
                \/ \E i \in 1..Len(guild_members[m].roles) :
                      \E j \in 1..Len(guild_channels[f].restricted_to) :
                          guild_channels[f].restricted_to[j] = guild_members[m].roles[i]
             THEN /\ r.outcome = "ok"
                  /\ guild_channels'[f].threads =
                        Append(guild_channels[f].threads, Len(threads) + 1)
                  /\ DictLen(guild_channels'[f].posts) = DictLen(guild_channels[f].posts) + 1
             ELSE /\ r.outcome = "PermissionError"
                  /\ guild_channels'[f].threads = guild_channels[f].threads
                  /\ guild_channels'[f].posts = guild_channels[f].posts
                  /\ threads' = threads]_vars

\* participant1, who holds dao-participant only, was refused on a forum
\* restricted to another role
C4_Witness ==
    /\ result.op = "create_forum_post"
    /\ result.outcome = "PermissionError"
    /\ result.author = "participant1"
    /\ DictGet(env_forum_channels, result.forum) # 0
    /\ guild_channels[DictGet(env_forum_channels, result.forum)].restricted_to # <<>>

\* ---- the feedback command ------------------------------------------------

\* C10: an invocation of the feedback command raises nothing to its caller
\* and ends with exactly one follow-up reply, which is ephemeral, whether it
\* was denied, rejected for scoping, found no number, failed inside, or
\* posted.
C10_FeedbackRepliesOnce ==
    (result.op = "feedback" /\ result.dispatched) =>
        /\ result.outcome = "ok"
        /\ Len(result.replies) = 1
        /\ result.replies[1].ephemeral
        /\ result.summary.response_sent

\* the command failed inside (the thread's name is None) and answered with
\* the error reply
C10_Witness ==
    /\ result.op = "feedback"
    /\ result.dispatched
    /\ result.replies = <<Reply(ExceptionReply)>>

\* C11: the feedback command changes a channel, a thread or a message list
\* only when the invoking user holds dao-team-representative or Admin, the
\* invoking channel is a thread whose parent_id is the configured forum id,
\* and the thread's name starts with a referendum number; in every other
\* case nothing of the entity model changes.
C11_FeedbackChangesOnlyWhenAllowed ==
    [][LET r == result'
       IN (r.op = "feedback" /\ (threads' # threads \/ guild_channels' # guild_channels)) =>
             /\ r.dispatched
             /\ \E i \in 1..Len(guild_members[DictGet(env_users, r.user)].roles) :
                   guild_roles[guild_members[DictGet(env_users, r.user)].roles[i]].name
                       \in {"dao-team-representative", "Admin"}
             /\ r.channel.kind = "thread"
             /\ threads[r.channel.ref].parent_id = DISCORD_FORUM_CHANNEL_ID
             /\ ExtractNumber(threads[r.channel.ref].name) # <<>>]_vars

\* admin_user gave feedback in a referendum thread and it was posted
C11_Witness ==
    /\ result.op = "feedback"
    /\ result.user = "admin_user"
    /\ result.replies = <<Reply(PostedReply)>>
    /\ \E t \in 1..Len(threads) :
          /\ threads[t].messages # <<>>
          /\ threads[t].messages[Len(threads[t].messages)].author.name = "JAM-DAO-Bot"

\* thread t of the next state is thread t of this one with one message more,
\* the feedback text behind the prefix, or a new thread holding that message
\* alone; every other thread is as it was
FeedbackLandsIn(t, message) ==
    /\ Len(threads') >= Len(threads)
    /\ \A u \in 1..Len(threads) : u # t => threads'[u] = threads[u]
    /\ \A u \in (Len(threads) + 1)..Len(threads') : u = t
    /\ LET before == IF t <= Len(threads) THEN threads[t].messages ELSE <<>>
           after == threads'[t].messages
       IN /\ Len(after) = Len(before) + 1
          /\ SubSeq(after, 1, Len(before)) = before
          /\ after[Len(after)].content = "**Feedback:** " \o message

\* C12: when the feedback command, given no public_thread, succeeds in a
\* referendum thread whose name yields the number n, exactly one message
\* "**Feedback:** <text>" is appended to exactly one thread, and that thread
\* is in the thread list of public-discussions and its name matches
\* ^Ref\s+n:.
C12_FeedbackLandsInRefThread ==
    [][LET r == result'
       IN (r.op = "feedback" /\ r.replies = <<Reply(PostedReply)>> /\ r.public_thread = 0) =>
             \E t \in 1..Len(threads') :
                 /\ FeedbackLandsIn(t, "text")
                 /\ Contains(guild_channels'[PublicChannel(EnvRec)].threads, t)
                 /\ MatchesRef(threads'[t].name,
                               ExtractNumber(threads[r.channel.ref].name))]_vars

HoldsRepresentative(m) ==
    \E i \in 1..Len(guild_members[m].roles) :
        guild_roles[guild_members[m].roles[i]].name = "dao-team-representative"

\* the members of the guild that hold the role
Representatives == {m \in 1..Len(guild_members) : HoldsRepresentative(m)}

\* C14: after any sequence of add_role and add_user calls,
\* get_quorum_eligible_users returns exactly the members of the guild that
\* hold the dao-team-representative role, each of them once.
C14_EligibleAreTheRepresentatives ==
    result.op = "get_quorum_eligible_users" =>
        /\ \A m \in 1..Len(guild_members) :
              HoldsRepresentative(m) <=> Contains(result.users, m)
        /\ \A i, j \in 1..Len(result.users) :
              result.users[i] = result.users[j] => i = j

\* C15: calculate_quorum_percentage(v) returns 0 when no member of the guild
\* is quorum-eligible and v * 100 / e when e > 0 members are.
C15_QuorumPercentage ==
    result.op = "calculate_quorum_percentage" =>
        LET e == Cardinality(Representatives)
        IN IF e = 0 THEN result.value.num = 0
           ELSE result.value.num * e = result.votes_count * 100 * result.value.den

\* C16: the quorum percentage of the votes appended to one referendum thread
\* by successful add_vote_to_referendum calls is between 0 and 100.
C16_QuorumWithinHundred ==
    (result.op = "calculate_quorum_percentage" /\ result.thread # 0) =>
        /\ 0 <= result.value.num
        /\ result.value.num <= 100 * result.value.den

\* ---- tags ----------------------------------------------------------------

\* C17: the thread create_forum_post returns has applied_tags made of tags of
\* the forum's available_tags only: every requested name that is the name of
\* an available tag contributes that tag, and every other requested name is
\* dropped without an error.
C17_AppliedTagsAreAvailable ==
    (result.op = "create_forum_post" /\ result.outcome = "ok") =>
        LET applied == threads[result.thread].applied_tags
            available == guild_channels[DictGet(env_forum_channels, result.forum)].available_tags
        IN /\ \A i \in 1..Len(applied) : \E j \in 1..Len(available) : applied[i] = available[j]
           /\ \A i \in 1..Len(applied) : \E k \in 1..Len(result.tags) :
                 applied[i].name = result.tags[k]
           /\ \A k \in 1..Len(result.tags) : \A j \in 1..Len(available) :
                 available[j].name = result.tags[k] =>
                     \E i \in 1..Len(applied) : applied[i] = available[j]

\* a post asked for MediumSpender and an unknown name and got MediumSpender
C17_Witness ==
    /\ result.op = "create_forum_post"
    /\ result.outcome = "ok"
    /\ result.tags = <<"MediumSpender", "Unknown">>
    /\ threads[result.thread].applied_tags = <<[id |-> 101, name |-> "MediumSpender"]>>

\* ---- lookups -------------------------------------------------------------

\* no thread has the id: in the named forum when a forum is named (none at
\* all when the forum does not exist), in any forum otherwise
ThreadIdMissing(thread_id, forum_name) ==
    IF forum_name = ""
    THEN \A t \in 1..Len(threads) : threads[t].id # thread_id
    ELSE \/ DictGet(env_forum_channels, forum_name) = 0
         \/ FindThreadInForum(EnvRec, DictGet(env_forum_channels, forum_name), thread_id) = 0

\* the call that left r was given a user, channel or forum name or a thread
\* id that does not exist
LookupFails(r) ==
    CASE r.op = "create_forum_post" ->
            DictGet(env_forum_channels, r.forum) = 0 \/ DictGet(env_users, r.author) = 0
      [] r.op = "add_message_to_thread_jam_dao" ->
            \/ DictGet(env_users, r.author) = 0
            \/ r.thread = 0 /\ r.thread_id # 0 /\ ThreadIdMissing(r.thread_id, r.forum_name)
      [] r.op = "add_vote_to_referendum" -> DictGet(env_users, r.author) = 0
      [] r.op = "simulate_message" ->
            DictGet(env_channels, r.channel) = 0 \/ DictGet(env_users, r.author) = 0
      [] r.op \in {"feedback", "vote"} ->
            DictGet(env_users, r.user) = 0 \/ r.channel.kind = "ValueError"
      [] OTHER -> FALSE

\* C18: a scenario operation given a user name, channel name, forum name or
\* thread id that does not exist raises a value error, sends no reply and
\* leaves every message list, thread list and posts map as it was.
C18_LookupFailureIsValueError ==
    [][LookupFails(result') =>
          /\ result'.outcome = "ValueError"
          /\ result'.op \in {"feedback", "vote"} => result'.replies = <<>>
          /\ threads' = threads
          /\ guild_channels' = guild_channels]_vars

\* C19: add_message_to_thread, given a thread or a thread_id with or without
\* a forum_name, either appends exactly one message with the content and the
\* author to the thread it was pointed at and to no other, or fails with a
\* value error and appends nothing.
C19_AddMessageAppendsOrValueError ==
    [][LET r == result'
           f == DictGet(env_forum_channels, r.forum_name)
           pointed == IF r.thread # 0 THEN r.thread
                      ELSE IF r.thread_id # 0 /\ f # 0
                      THEN FindThreadInForum(EnvRec, f, r.thread_id)
                      ELSE 0
       IN (r.op = "add_message_to_thread_jam_dao" /\ (r.thread # 0 \/ r.thread_id # 0)) =>
             \/ /\ r.outcome = "ok"
                /\ pointed # 0
                /\ AppendsOne(pointed, r.content, r.author)
             \/ /\ r.outcome = "ValueError"
                /\ threads' = threads]_vars

\* ========================================================================
\* Claims about the command table (checked under SpecCommands)
\* ========================================================================

\* the registered function a content addresses, 0 when it addresses none:
\* the content starts with the prefix and the first whitespace-delimited
\* token after it is a registered name
Addressed(content) ==
    IF content # <<>> /\ Head(content) = CommandPrefix /\ FirstToken(Tail(content)) # <<>>
    THEN DictGet(commands, FirstToken(Tail(content))[1])
    ELSE 0

\* C20: process_command on a content that addresses no registered command
\* (no prefix, an unregistered name, or the prefix alone) completes without
\* raising and invokes no handler; on a registered name it invokes that
\* name's function exactly once with (bot, message); trigger_event on an
\* event name with no handler and no listener completes without raising and
\* invokes nothing; neither changes the command, handler or listener tables.
C20_UnknownNamesAreNoOps ==
    [][ /\ (processed' # processed) =>
            /\ processed'.op = "process_command"
            /\ IF Addressed(processed'.content) = 0
               THEN /\ processed'.outcome = "ok"
                    /\ processed'.invoked = <<>>
               ELSE processed'.invoked =
                        <<[func |-> Addressed(processed'.content),
                           args |-> <<"bot", processed'.content>>]>>
            /\ UNCHANGED <<commands, event_handlers, listeners>>
        /\ \A c \in 1..Len(dispatches) :
            ( /\ dispatches[c].stage # dispatches'[c].stage
              /\ event_handlers[dispatches[c].name] = 0
              /\ listeners[dispatches[c].name] = <<>> ) =>
                /\ dispatches'[c].stage = "returned"
                /\ dispatches'[c].log = <<>>
                /\ UNCHANGED <<commands, event_handlers, listeners>>
      ]_vars

\* ========================================================================
\* Claims about the structure of the environment (checked under
\* SpecStructure)
\* ========================================================================

\* the ids of the list start at first and increase strictly
IdsStartAndIncrease(list, first) ==
    /\ list # <<>> => list[1].id = first
    /\ \A i, j \in 1..Len(list) : i < j => list[i].id < list[j].id

\* the channels of the guild of one kind, in the order they were added
ChannelsOfKind(kind) == SelectSeq(guild_channels, LAMBDA ch : ch.kind = kind)

\* C21: with no explicit id passed, the first role, channel, forum and user
\* get the ids 11, 101, 201 and 301, and every later id of a collection is
\* greater than every earlier one, so the ids the guild holds for one
\* collection are pairwise distinct, names repeated or not.
C21_AutoIdsIncrease ==
    /\ IdsStartAndIncrease(guild_roles, 11)
    /\ IdsStartAndIncrease(ChannelsOfKind("text"), 101)
    /\ IdsStartAndIncrease(ChannelsOfKind("forum"), 201)
    /\ IdsStartAndIncrease(guild_members, 301)

\* position r is a role of the guild's role list
IsGuildRole(r) == r \in 1..Len(guild_roles)

\* C22: after add_role, add_channel, add_forum_channel and add_user calls in
\* any order, every role a member holds and every role of a channel's or
\* forum's restriction set is a role of the guild's role list: names that
\* were not declared before the call are left out.
C22_NoDanglingRoles ==
    /\ \A m \in 1..Len(guild_members) :
           \A i \in 1..Len(guild_members[m].roles) : IsGuildRole(guild_members[m].roles[i])
    /\ \A c \in 1..Len(guild_channels) :
           \A i \in 1..Len(guild_channels[c].restricted_to) :
               IsGuildRole(guild_channels[c].restricted_to[i])

\* a user, a channel and a forum were added with a declared and an
\* undeclared role name, and each kept the declared role only
C22_Witness ==
    /\ \E m \in 1..Len(guild_members) : Len(guild_members[m].roles) = 1
    /\ \E c \in 1..Len(guild_channels) :
           guild_channels[c].kind = "text" /\ Len(guild_channels[c].restricted_to) = 1
    /\ \E c \in 1..Len(guild_channels) :
           guild_channels[c].kind = "forum" /\ Len(guild_channels[c].restricted_to) = 1
    /\ result.op \in {"add_user", "add_channel", "add_forum_channel"}

\* C24: after add_role, add_user, Member.add_roles and Member.remove_roles
\* calls, every member holds each role at most once in its role list.
C24_RolesHeldOnce ==
    \A m \in 1..Len(guild_members) :
        \A i, j \in 1..Len(guild_members[m].roles) :
            i # j => guild_members[m].roles[i] # guild_members[m].roles[j]

\* ========================================================================
\* Claims about a task loop that is never stopped (checked under
\* SpecTaskLive)
\* ========================================================================

\* the step begins an invocation of the callback
Invokes == started' = started + 1

\* the step completes an invocation of the callback: a task leaves the
\* callback for the sleep of _run, or an invocation begins and no task is
\* left inside the callback by it
Completes ==
    \/ \E i \in 1..Len(tasks) : tasks[i].pc = "callback" /\ tasks'[i].pc = "sleep"
    \/ /\ Invokes
       /\ \A i \in 1..Len(tasks) : tasks'[i].pc = "callback" => tasks[i].pc = "callback"

\* C23: once start() was called on a loop whose callback always returns, and
\* stop() is never called, the callback is invoked again and again without
\* end under fair scheduling, and each completed invocation is followed by
\* an update of next_iteration before the next invocation.
C23_InvokedForever ==
    /\ [][Completes => next_iteration' = now + Interval]_vars
    /\ ([](tasks = <<>>) \/ []<><<Invokes>>_vars)

\* the loop was started, time passed, the invocations were counted to the
\* bound and counted again, and next_iteration was stored after the tick
C23_Witness ==
    /\ calls # <<>>
    /\ running
    /\ now = MaxTime
    /\ started = MaxInvocations
    /\ next_iteration = MaxTime + Interval
    /\ \E i \in 1..Len(tasks) : tasks[i].pc = "sleep"

\* ========================================================================
\* Claims about companion threads and thread ids (checked under Spec and
\* SpecLookups)
\* ========================================================================

\* the threads the feedback command created in the public-discussions forum
CompanionThreads ==
    IF PublicChannel(EnvRec) = 0 THEN {}
    ELSE LET list == guild_channels[PublicChannel(EnvRec)].threads
         IN {list[i] : i \in {j \in 1..Len(list) : threads[list[j]].kind = "MagicMock"}}

\* the referendum number of a companion thread: the number of the thread
\* name that follows "Ref "
CompanionNumber(t) == ExtractNumber(SubSeq(threads[t].name, 5, Len(threads[t].name)))

\* C25: whatever successful feedback invocations without a public thread
\* were made from referendum threads named "n: ..." or "#n: ...", the
\* public-discussions forum holds at most one companion thread per
\* referendum number n: the first invocation for n creates it and the later
\* ones append to it.
C25_OneCompanionPerNumber ==
    \A t, u \in CompanionThreads : CompanionNumber(t) = CompanionNumber(u) => t = u

\* the forum channels of the guild
ForumChannels == {c \in 1..Len(guild_channels) : guild_channels[c].kind = "forum"}

\* C26: however create_forum_post calls and feedback invocations that create
\* a companion thread interleave, the threads of one forum channel's thread
\* list have pairwise distinct ids.
C26_ThreadIdsDistinctInForum ==
    \A c \in ForumChannels :
        LET list == guild_channels[c].threads
        IN \A i, j \in 1..Len(list) :
               i # j => threads[list[i]].id # threads[list[j]].id

\* self.posts.get(thread_id) of forum c, 0 for None (forum_channel.py:68)
GetThread(c, thread_id) == DictGet(guild_channels[c].posts, thread_id)

\* list(self.posts.values()) of forum c (forum_channel.py:77)
GetActiveThreads(c) ==
    [i \in 1..Len(guild_channels[c].posts) |-> guild_channels[c].posts[i].value]

\* C27: in every reachable state the values of a forum's posts mapping are
\* exactly the threads of its thread list, each under its own id:
\* get_thread(t.id) returns t and get_active_threads() lists t for every
\* thread t of the list.
C27_PostsAreTheThreads ==
    \A c \in ForumChannels :
        LET list == guild_channels[c].threads
        IN /\ \A i \in 1..Len(list) :
                  /\ GetThread(c, threads[list[i]].id) = list[i]
                  /\ Contains(GetActiveThreads(c), list[i])
           /\ \A k \in 1..Len(GetActiveThreads(c)) : Contains(list, GetActiveThreads(c)[k])

\* the threads create_forum_post returned: the MockThread objects of the
\* forums' thread lists
PostThreads ==
    {t \in 1..Len(threads) :
        /\ threads[t].kind = "MockThread"
        /\ \E c \in ForumChannels : Contains(guild_channels[c].threads, t)}

\* C28: for every thread t that create_forum_post returned, in any forum,
\* simulate_slash_command called with thread_id = t.id dispatches the
\* command with t itself as the interaction's channel: no other thread of
\* any forum is selected for that id.
C28_ThreadIdSelectsThread ==
    \A t \in PostThreads :
        ResolveTarget(EnvRec, ByThreadId(threads[t].id)) = ThreadRef(t)

\* ========================================================================
\* Claims about restricted forums and anonymity (checked under
\* SpecPermissions and Spec)
\* ========================================================================

\* the elements of a list
Elements(list) == {list[i] : i \in 1..Len(list)}

\* C29: once add_forum_channel was called with a non-empty restricted_to
\* list of role names, a successful create_forum_post in that forum is made
\* by an author who holds a role whose name is in the list; a member with
\* none of the roles cannot post there.  Stated of the post that follows the
\* call.
C29_RestrictedForumKeepsOthersOut ==
    [][ ( /\ result.op = "add_forum_channel"
          /\ result.restricted_to # <<>>
          /\ result'.op = "create_forum_post"
          /\ result'.outcome = "ok"
          /\ result'.forum = result.name )
        => HoldsRoleNamed(EnvRec, DictGet(env_users, result'.author),
                          Elements(result.restricted_to)) ]_vars

\* the users who may invoke the feedback command
EligibleUsers ==
    {name \in UserNames :
        /\ DictGet(env_users, name) # 0
        /\ HoldsRoleNamed(EnvRec, DictGet(env_users, name), FeedbackRoles)}

\* the messages of the next state that this state does not hold
NewMessages ==
    UNION { LET before == IF t <= Len(threads) THEN Len(threads[t].messages) ELSE 0
                after == threads'[t].messages
            IN {after[k] : k \in (before + 1)..Len(after)} : t \in 1..Len(threads') }

\* C30: feedback is anonymous.  When an eligible user invokes the feedback
\* command, the entity model after the call (channels, threads, messages and
\* their authors) is the one the same call by any other eligible user, with
\* the same text from the same thread in the same state, leaves behind, and
\* the author of the appended message is a bot user made for the message,
\* never the invoking member.
C30_FeedbackIsAnonymous ==
    [][LET r == result'
       IN (r.op = "feedback" /\ r.dispatched /\ r.user \in EligibleUsers) =>
             /\ \A other \in EligibleUsers :
                    MockFeedback(EnvRec, DictGet(env_users, other), r.channel,
                                 "text", r.public_thread).env = EnvRec'
             /\ \A msg \in NewMessages :
                    msg.author = BotAuthor("JAM-DAO-Bot")]_vars

\* dao_rep1 gave feedback in a referendum thread, admin_user could have, and
\* the message stands in a thread under the bot's name
C30_Witness ==
    /\ result.op = "feedback"
    /\ result.user = "dao_rep1"
    /\ "admin_user" \in EligibleUsers
    /\ result.channel.kind = "thread"
    /\ result.replies = <<Reply(PostedReply)>>
    /\ \E t \in 1..Len(threads) :
          /\ threads[t].messages # <<>>
          /\ threads[t].messages[Len(threads[t].messages)].content = "**Feedback:** text"
          /\ threads[t].messages[Len(threads[t].messages)].author = BotAuthor("JAM-DAO-Bot")

====
